---- MODULE Spec2Model ----
(***************************************************************************)
(* Short-road detection over a RawMap                                      *)
(* (raw_map/src/transform/find_short_roads.rs).                            *)
(*                                                                         *)
(* The state is one RawMap (roads keyed by OriginalRoad, intersections     *)
(* keyed by node id), the external file merge_osm_ways.json, and the       *)
(* outcome of the last call made on the map.  Lengths are whole metres.    *)
(***************************************************************************)
EXTENDS Integers, Sequences, FiniteSets, TLC

VARIABLES
    map,             \* the RawMap: [name, roads, intersections]
    merge_osm_ways,  \* the file merge_osm_ways.json: [state, ways]
    call,            \* the last call: [op, consolidate_all]
    pre,             \* the RawMap as it was when the last call started
    result,          \* the Vec<OriginalRoad> the last call returned
    status,          \* "idle", "returned", or "panicked" (unwrap on a missing road)
    previous,        \* [repeat, result]: whether the last call repeats the call before
                     \* it (same function, same arguments), and what that one returned
    commands,        \* app.primary.map.get_edits().commands: the map's Vec<EditCmd>
    editor,          \* the BuildingEditor: [state, b, num_edit_cmds_originally,
                     \* redo_stack, top_panel]
    history,         \* the editor's last two events with the commands and redo_stack
                     \* each of them found, and the commands BuildingEditor::create found
    gameplay         \* a call of GameplayMode::allows: [mode, edits, called, allowed]

raw_map_vars == <<map, merge_osm_ways, call, pre, result, status, previous>>
editor_vars == <<commands, editor, history>>
vars == <<map, merge_osm_ways, call, pre, result, status, previous,
          commands, editor, history, gameplay>>

----------------------------------------------------------------------------
(* Bounds of the model *)

\* longest override list stored in merge_osm_ways.json
MaxOverrides == 2
\* most edit commands the map holds when a BuildingEditor is created
MaxOriginal == 1
\* most commands a BuildingEditor adds on top of them
MaxEdits == 3
\* largest value of the parking_capacity spinner
MaxCapacity == 1
\* longest MapEdits command list handed to GameplayMode::allows
MaxCommands == 2

----------------------------------------------------------------------------
(* Values *)

\* Option<PolyLine> / Result<PolyLine>, reduced to the polyline's length
PolyLine(n) == [ok |-> TRUE, length |-> n]
NoPolyLine == [ok |-> FALSE, length |-> 0]

IntersectionTypes == {"StopSign", "TrafficSignal", "Border"}

\* Lengths a trimmed polyline takes in the model (below, at, above 5.0)
TrimmedLengths == {4, 5, 6}
\* Lengths an untrimmed centre line takes in the model (below, at, above 20.0)
GeometryLengths == {15, 20, 25}

MapNames == {"montlake", "phinney"}

\* OriginalRoad { osm_way_id, i1, i2 }
OriginalRoad(w, a, b) == [osm_way_id |-> w, i1 |-> a, i2 |-> b]

\* derive(PartialOrd, Ord) on OriginalRoad: lexicographic on the fields
RoadLess(x, y) ==
    \/ x.osm_way_id < y.osm_way_id
    \/ x.osm_way_id = y.osm_way_id /\ x.i1 < y.i1
    \/ x.osm_way_id = y.osm_way_id /\ x.i1 = y.i1 /\ x.i2 < y.i2

\* Iteration order of the BTreeMap map.roads
RECURSIVE SortedKeys(_)
SortedKeys(S) ==
    IF S = {} THEN <<>>
    ELSE LET m == CHOOSE x \in S : \A y \in S : x = y \/ RoadLess(x, y)
         IN <<m>> \o SortedKeys(S \ {m})

Range(s) == {s[k] : k \in 1..Len(s)}

----------------------------------------------------------------------------
(* Accessors of RawMap and RawRoad *)

\* osm_tags.is("junction", "intersection")
IsJunctionIntersection(road) == road.osm_tags = "intersection"

\* Intersection::is_border
is_border(i) == i.intersection_type = "Border"

\* RawMap::trimmed_road_geometry(id): Some(trimmed polyline), or None
trimmed_road_geometry(m, id) == m.roads[id].trimmed

\* RawRoad::get_geometry(id, config): Ok(centre line), or Err
get_geometry(m, id) == m.roads[id].center

\* RawRoad::is_driveable(config)
is_driveable(m, id) == m.roads[id].driveable

\* RawMap::roads_per_intersection(i)
roads_per_intersection(m, i) ==
    SortedKeys({r \in DOMAIN m.roads : r.i1 = i \/ r.i2 = i})

\* abstio::maybe_read_json::<Vec<OriginalRoad>>("merge_osm_ways.json")
maybe_read_json(file) ==
    IF file.state = "ok" THEN [ok |-> TRUE, ways |-> file.ways]
    ELSE [ok |-> FALSE, ways |-> <<>>]

----------------------------------------------------------------------------
(* Thresholds *)

\* distance_heuristic: Distance::meters(5.0)
DistanceThreshold == 5
\* find_traffic_signal_clusters: Distance::meters(20.0)
SignalThreshold == 20
\* find_dog_legs: Distance::meters(5.0)
DogLegThreshold == 5

----------------------------------------------------------------------------
(* The heuristics *)

\* distance_heuristic with `<=` for `<`
distance_heuristic_inclusive(id, m) ==
    LET pl == trimmed_road_geometry(m, id)
    IN IF pl.ok THEN pl.length <= DistanceThreshold ELSE FALSE

\* distance_heuristic with the border check of the other two heuristics
distance_heuristic_skips_borders(id, m) ==
    LET pl == trimmed_road_geometry(m, id)
    IN /\ ~(is_border(m.intersections[id.i1]) \/ is_border(m.intersections[id.i2]))
       /\ IF pl.ok THEN pl.length < DistanceThreshold ELSE FALSE

\* fn distance_heuristic(id, map) -> bool
distance_heuristic(id, m) ==
    LET pl == trimmed_road_geometry(m, id)
    IN IF pl.ok THEN pl.length < DistanceThreshold ELSE FALSE

\* mark_short_roads returning after the first road of the list
mark_short_roads_first_only(m, list) ==
    IF list = <<>> THEN [map |-> m, panicked |-> FALSE]
    ELSE IF Head(list) \notin DOMAIN m.roads
         THEN [map |-> m, panicked |-> TRUE]
         ELSE [map |-> [m EXCEPT !.roads[Head(list)].osm_tags = "intersection"],
               panicked |-> FALSE]

\* mark_short_roads with `if let Some(road) = get_mut(id)` for `get_mut(id).unwrap()`
RECURSIVE mark_short_roads_ignores_missing(_, _)
mark_short_roads_ignores_missing(m, list) ==
    IF list = <<>> THEN [map |-> m, panicked |-> FALSE]
    ELSE LET id == Head(list)
         IN IF id \notin DOMAIN m.roads
            THEN mark_short_roads_ignores_missing(m, Tail(list))
            ELSE mark_short_roads_ignores_missing(
                     [m EXCEPT !.roads[id].osm_tags = "intersection"], Tail(list))

\* RawMap::mark_short_roads: tags the roads of the list one by one; get_mut(id).unwrap()
\* panics at the first identifier that is no road of the map
RECURSIVE mark_short_roads(_, _)
mark_short_roads(m, list) ==
    IF list = <<>> THEN [map |-> m, panicked |-> FALSE]
    ELSE LET id == Head(list)
         IN IF id \notin DOMAIN m.roads
            THEN [map |-> m, panicked |-> TRUE]
            ELSE mark_short_roads(
                     [m EXCEPT !.roads[id].osm_tags = "intersection"], Tail(list))

\* the loop body of find_traffic_signal_clusters without the skip of tagged roads
SignalClusterFlagsNoTagSkip(m, id) ==
    LET i1 == m.intersections[id.i1]
        i2 == m.intersections[id.i2]
        pl == get_geometry(m, id)
    IN /\ ~(is_border(i1) \/ is_border(i2))
       /\ ~(i1.intersection_type # "TrafficSignal" /\ i2.intersection_type # "TrafficSignal")
       /\ pl.ok
       /\ pl.length <= SignalThreshold

\* the loop body of find_traffic_signal_clusters with `<` for `<=`
SignalClusterFlagsStrict(m, id) ==
    LET road == m.roads[id]
        i1 == m.intersections[id.i1]
        i2 == m.intersections[id.i2]
        pl == get_geometry(m, id)
    IN /\ ~IsJunctionIntersection(road)
       /\ ~(is_border(i1) \/ is_border(i2))
       /\ ~(i1.intersection_type # "TrafficSignal" /\ i2.intersection_type # "TrafficSignal")
       /\ pl.ok
       /\ pl.length < SignalThreshold

\* the loop body of find_traffic_signal_clusters measuring trimmed_road_geometry
SignalClusterFlagsTrimmed(m, id) ==
    LET road == m.roads[id]
        i1 == m.intersections[id.i1]
        i2 == m.intersections[id.i2]
        pl == trimmed_road_geometry(m, id)
    IN /\ ~IsJunctionIntersection(road)
       /\ ~(is_border(i1) \/ is_border(i2))
       /\ ~(i1.intersection_type # "TrafficSignal" /\ i2.intersection_type # "TrafficSignal")
       /\ pl.ok
       /\ pl.length <= SignalThreshold

\* the body of the loop of find_traffic_signal_clusters, for one road
SignalClusterFlags(m, id) ==
    LET road == m.roads[id]
        i1 == m.intersections[id.i1]
        i2 == m.intersections[id.i2]
        pl == get_geometry(m, id)
    IN /\ ~IsJunctionIntersection(road)
       /\ ~(is_border(i1) \/ is_border(i2))
       /\ ~(i1.intersection_type # "TrafficSignal" /\ i2.intersection_type # "TrafficSignal")
       /\ pl.ok
       /\ pl.length <= SignalThreshold

\* the angle check of find_dog_legs switched on
AngleCheckOn == TRUE

\* the `if false &&` in front of nearly_parallel in find_dog_legs
AngleCheckEnabled == FALSE

\* fn nearly_parallel(map, roads, i) -> Option<bool>; the angles of the three
\* polylines at i are reduced to the flag intersections[i].parallel
nearly_parallel(m, roads, i) ==
    IF \E k \in 1..Len(roads) : ~trimmed_road_geometry(m, roads[k]).ok
    THEN [some |-> FALSE, value |-> FALSE]
    ELSE [some |-> TRUE, value |-> m.intersections[i].parallel]

\* the endpoint checks of find_dog_legs without the border check
DogLegEndpointOkNoBorder(m, i) ==
    LET connections == roads_per_intersection(m, i)
        np == nearly_parallel(m, connections, i)
    IN /\ Len(connections) = 3
       /\ \A k \in 1..Len(connections) : is_driveable(m, connections[k])
       /\ ~(AngleCheckEnabled /\ (IF np.some THEN np.value ELSE TRUE))

\* the checks of find_dog_legs at one endpoint i of a road
DogLegEndpointOk(m, i) ==
    LET connections == roads_per_intersection(m, i)
        np == nearly_parallel(m, connections, i)
    IN /\ Len(connections) = 3
       /\ \A k \in 1..Len(connections) :
              LET r == connections[k]
              IN /\ is_driveable(m, r)
                 /\ ~(is_border(m.intersections[r.i1]) \/ is_border(m.intersections[r.i2]))
       /\ ~(AngleCheckEnabled /\ (IF np.some THEN np.value ELSE TRUE))

\* the body of the 'ROAD loop of find_dog_legs, for one road
DogLegFlags(m, id) ==
    LET pl == trimmed_road_geometry(m, id)
    IN /\ pl.ok
       /\ ~(pl.length > DogLegThreshold)
       /\ DogLegEndpointOk(m, id.i1)
       /\ DogLegEndpointOk(m, id.i2)

\* the loop of find_traffic_signal_clusters over self.roads
RECURSIVE SignalClusterScan(_, _)
SignalClusterScan(keys, m) ==
    IF keys = <<>> THEN <<>>
    ELSE (IF SignalClusterFlags(m, Head(keys)) THEN <<Head(keys)>> ELSE <<>>)
         \o SignalClusterScan(Tail(keys), m)

\* RawMap::find_traffic_signal_clusters: the scan, then mark_short_roads
find_traffic_signal_clusters(m) ==
    LET results == SignalClusterScan(SortedKeys(DOMAIN m.roads), m)
    IN [list |-> results, marked |-> mark_short_roads(m, results)]

\* the 'ROAD loop of find_dog_legs over self.roads.keys()
RECURSIVE DogLegScan(_, _)
DogLegScan(keys, m) ==
    IF keys = <<>> THEN <<>>
    ELSE (IF DogLegFlags(m, Head(keys)) THEN <<Head(keys)>> ELSE <<>>)
         \o DogLegScan(Tail(keys), m)

\* RawMap::find_dog_legs: the scan, then mark_short_roads
find_dog_legs(m) ==
    LET results == DogLegScan(SortedKeys(DOMAIN m.roads), m)
    IN [list |-> results, marked |-> mark_short_roads(m, results)]

\* the first loop of find_short_roads without the `continue` after a tagged road
RECURSIVE ScanRoadsNoContinue(_, _, _)
ScanRoadsNoContinue(keys, m, consolidate_all) ==
    IF keys = <<>> THEN <<>>
    ELSE LET id == Head(keys)
         IN (IF IsJunctionIntersection(m.roads[id]) THEN <<id>> ELSE <<>>)
            \o (IF consolidate_all /\ distance_heuristic(id, m) THEN <<id>> ELSE <<>>)
            \o ScanRoadsNoContinue(Tail(keys), m, consolidate_all)

\* the first loop of find_short_roads skipping tagged roads without pushing them,
\* as the loop of find_traffic_signal_clusters does
RECURSIVE ScanRoadsSkipTagged(_, _, _)
ScanRoadsSkipTagged(keys, m, consolidate_all) ==
    IF keys = <<>> THEN <<>>
    ELSE LET id == Head(keys)
             push == IF IsJunctionIntersection(m.roads[id]) THEN FALSE
                     ELSE consolidate_all /\ distance_heuristic(id, m)
         IN (IF push THEN <<id>> ELSE <<>>)
            \o ScanRoadsSkipTagged(Tail(keys), m, consolidate_all)

\* the first loop of find_short_roads: tagged roads, then the distance heuristic
RECURSIVE ScanRoads(_, _, _)
ScanRoads(keys, m, consolidate_all) ==
    IF keys = <<>> THEN <<>>
    ELSE LET id == Head(keys)
             push == IF IsJunctionIntersection(m.roads[id]) THEN TRUE
                     ELSE consolidate_all /\ distance_heuristic(id, m)
         IN (IF push THEN <<id>> ELSE <<>>) \o ScanRoads(Tail(keys), m, consolidate_all)

\* the montlake roll-out of find_dog_legs switched on
DogLegRolloutOn == TRUE

\* the `if false &&` in front of the montlake roll-out of find_dog_legs
DogLegRollout == FALSE

\* find_short_roads taking the overrides first and the scanned roads after them
find_short_roads_overrides_first(m, consolidate_all, file) ==
    LET scanned == ScanRoads(SortedKeys(DOMAIN m.roads), m, consolidate_all)
        ways == maybe_read_json(file)
        roads2 == IF ways.ok THEN ways.ways \o scanned ELSE scanned
    IN [list |-> roads2, marked |-> mark_short_roads(m, roads2)]

\* find_short_roads with `.unwrap()` on the result of maybe_read_json
find_short_roads_requires_file(m, consolidate_all, file) ==
    LET scanned == ScanRoads(SortedKeys(DOMAIN m.roads), m, consolidate_all)
        ways == maybe_read_json(file)
    IN IF ways.ok
       THEN [list |-> scanned \o ways.ways,
             marked |-> mark_short_roads(m, scanned \o ways.ways)]
       ELSE [list |-> <<>>, marked |-> [map |-> m, panicked |-> TRUE]]

\* find_short_roads reading the overrides only under consolidate_all
find_short_roads_overrides_optional(m, consolidate_all, file) ==
    LET scanned == ScanRoads(SortedKeys(DOMAIN m.roads), m, consolidate_all)
        ways == maybe_read_json(file)
        roads2 == IF consolidate_all /\ ways.ok THEN scanned \o ways.ways ELSE scanned
    IN [list |-> roads2, marked |-> mark_short_roads(m, roads2)]

\* pub fn find_short_roads(map, consolidate_all) -> Vec<OriginalRoad>
find_short_roads(m, consolidate_all, file) ==
    LET scanned == ScanRoads(SortedKeys(DOMAIN m.roads), m, consolidate_all)
        rollout == DogLegRollout /\ m.name = "montlake"
        legs == find_dog_legs(m)
        m1 == IF rollout THEN legs.marked.map ELSE m
        roads1 == IF rollout THEN scanned \o legs.list ELSE scanned
        ways == maybe_read_json(file)
        roads2 == IF ways.ok THEN roads1 \o ways.ways ELSE roads1
    IN [list |-> roads2, marked |-> mark_short_roads(m1, roads2)]

----------------------------------------------------------------------------
(* The building editor (apps/game/src/edit/buildings.rs) *)

Buildings == {1, 2}

\* OffstreetParking::Private(count, true)
Private(count) == [type |-> "Private", count |-> count, garage |-> TRUE]

\* EditCmd::ChangeBuilding { b, old, new }, old and new reduced to their parking
ChangeBuilding(b, old, new) == [kind |-> "ChangeBuilding", b |-> b, old |-> old, new |-> new]

\* EditCmd::ChangeRoad { .. }: a command of the map that no BuildingEditor made
ChangeRoad == [kind |-> "ChangeRoad", b |-> 0, old |-> Private(0), new |-> Private(0)]

\* the parking of a building of the unedited map
BaseParking == Private(0)

\* Map::get_b_edit(b): the building as the applied commands leave it
RECURSIVE get_b_edit(_, _)
get_b_edit(cmds, b) ==
    IF cmds = <<>> THEN BaseParking
    ELSE LET last == cmds[Len(cmds)]
         IN IF last.kind = "ChangeBuilding" /\ last.b = b THEN last.new
            ELSE get_b_edit(SubSeq(cmds, 1, Len(cmds) - 1), b)

make_top_panel_undo_always(cmds, num_edit_cmds_originally, no_redo_cmds) ==
    [undo_disabled |-> FALSE, redo_disabled |-> no_redo_cmds]

\* make_top_panel: the disabled flags of the undo and redo buttons
make_top_panel(cmds, num_edit_cmds_originally, no_redo_cmds) ==
    [undo_disabled |-> Len(cmds) = num_edit_cmds_originally,
     redo_disabled |-> no_redo_cmds]

NoEditor ==
    [state |-> "none", b |-> 0, num_edit_cmds_originally |-> 0, redo_stack |-> <<>>,
     top_panel |-> [undo_disabled |-> TRUE, redo_disabled |-> TRUE]]

NoEvent == [event |-> "none", commands |-> <<>>, redo_stack |-> <<>>]
NoHistory == [last |-> NoEvent, earlier |-> NoEvent, original |-> <<>>]

\* no call of GameplayMode::allows is modelled
NoGameplay == [mode |-> "Freeform", edits |-> <<>>, called |-> FALSE, allowed |-> TRUE]

\* the event being handled joins the history
Remember(event) ==
    history' = [last |-> [event |-> event, commands |-> commands,
                          redo_stack |-> editor.redo_stack],
                earlier |-> history.last,
                original |-> IF event = "create" THEN commands ELSE history.original]

\* BuildingEditor::recalc_all_panels
recalc_all_panels(ed, cmds) ==
    [ed EXCEPT !.top_panel =
        make_top_panel(cmds, ed.num_edit_cmds_originally, ed.redo_stack = <<>>)]

\* BuildingEditor::compress_edits: Some(edits) or None
compress_edits(ed, cmds) ==
    IF Len(cmds) > ed.num_edit_cmds_originally + 2
    THEN LET last_edit == cmds[Len(cmds)].new
             kept == SubSeq(cmds, 1, ed.num_edit_cmds_originally + 1)
         IN [some |-> TRUE,
             commands |-> [kept EXCEPT ![Len(kept)].new = last_edit]]
    ELSE [some |-> FALSE, commands |-> cmds]

\* BuildingEditor::create
Create ==
    /\ editor.state = "none"
    /\ \E b \in Buildings :
           editor' = recalc_all_panels(
                         [state |-> "open", b |-> b,
                          num_edit_cmds_originally |-> Len(commands),
                          redo_stack |-> <<>>,
                          top_panel |-> NoEditor.top_panel],
                         commands)
    /\ UNCHANGED commands
    /\ Remember("create")
    /\ UNCHANGED <<raw_map_vars, gameplay>>

\* event: Outcome::Clicked("Finish")
ClickFinish ==
    /\ editor.state = "open"
    /\ LET edits == compress_edits(editor, commands)
       IN commands' = IF edits.some THEN edits.commands ELSE commands
    /\ editor' = [editor EXCEPT !.state = "popped"]
    /\ Remember("Finish")
    /\ UNCHANGED <<raw_map_vars, gameplay>>

\* event: Outcome::Clicked("Cancel")
ClickCancel ==
    /\ editor.state = "open"
    /\ commands' = IF Len(commands) # editor.num_edit_cmds_originally
                   THEN SubSeq(commands, 1, editor.num_edit_cmds_originally)
                   ELSE commands
    /\ editor' = [editor EXCEPT !.state = "popped"]
    /\ Remember("Cancel")
    /\ UNCHANGED <<raw_map_vars, gameplay>>

\* event: Outcome::Clicked("undo"); the button is disabled as make_top_panel left it,
\* and commands.pop().unwrap() needs a command
ClickUndo ==
    /\ editor.state = "open"
    /\ ~editor.top_panel.undo_disabled
    /\ commands # <<>>
    /\ commands' = SubSeq(commands, 1, Len(commands) - 1)
    /\ editor' = recalc_all_panels(
                     [editor EXCEPT !.redo_stack = Append(@, commands[Len(commands)])],
                     commands')
    /\ Remember("undo")
    /\ UNCHANGED <<raw_map_vars, gameplay>>

\* event: Outcome::Clicked("redo")
ClickRedo ==
    /\ editor.state = "open"
    /\ ~editor.top_panel.redo_disabled
    /\ editor.redo_stack # <<>>
    /\ LET stack == editor.redo_stack
       IN /\ commands' = Append(commands, stack[Len(stack)])
          /\ editor' = recalc_all_panels(
                           [editor EXCEPT !.redo_stack = SubSeq(stack, 1, Len(stack) - 1)],
                           commands')
    /\ Remember("redo")
    /\ UNCHANGED <<raw_map_vars, gameplay>>

\* event: Outcome::Clicked("jump to building"): pushes the Warping state
ClickJump ==
    /\ editor.state = "open"
    /\ UNCHANGED <<commands, editor>>
    /\ Remember("jump to building")
    /\ UNCHANGED <<raw_map_vars, gameplay>>

ChangeParkingCapacityKeepsRedo ==
    /\ editor.state = "open"
    /\ Len(commands) - editor.num_edit_cmds_originally < MaxEdits
    /\ \E parking_capacity \in 0..MaxCapacity :
           LET old == get_b_edit(commands, editor.b)
               new == Private(parking_capacity)
           IN commands' = Append(commands, ChangeBuilding(editor.b, old, new))
    /\ editor' = recalc_all_panels(editor, commands')
    /\ Remember("parking_capacity")
    /\ UNCHANGED <<raw_map_vars, gameplay>>

\* event: Outcome::Changed("parking_capacity")
ChangeParkingCapacity ==
    /\ editor.state = "open"
    /\ Len(commands) - editor.num_edit_cmds_originally < MaxEdits
    /\ \E parking_capacity \in 0..MaxCapacity :
           LET old == get_b_edit(commands, editor.b)
               new == Private(parking_capacity)
           IN commands' = Append(commands, ChangeBuilding(editor.b, old, new))
    /\ editor' = recalc_all_panels([editor EXCEPT !.redo_stack = <<>>], commands')
    /\ Remember("parking_capacity")
    /\ UNCHANGED <<raw_map_vars, gameplay>>

\* the commands the map may hold before the editor opens: each ChangeBuilding starts
\* from the parking the commands before it left
OriginalCommands ==
    {ChangeRoad} \cup {ChangeBuilding(1, Private(o), Private(n)) : o, n \in 0..MaxCapacity}

RECURSIVE ValidCommands(_)
ValidCommands(cmds) ==
    IF cmds = <<>> THEN TRUE
    ELSE LET last == cmds[Len(cmds)]
             rest == SubSeq(cmds, 1, Len(cmds) - 1)
         IN /\ ValidCommands(rest)
            /\ last.kind = "ChangeBuilding" => last.old = get_b_edit(rest, last.b)

\* the map of the editor runs: its short-road state plays no part
IdleMap ==
    [name |-> "montlake",
     roads |-> [r \in {OriginalRoad(1, 1, 2)} |->
                   [osm_tags |-> "", trimmed |-> PolyLine(6), center |-> PolyLine(25),
                    driveable |-> TRUE]],
     intersections |-> [i \in {1, 2} |-> [intersection_type |-> "StopSign", parallel |-> FALSE]]]

InitEditor ==
    /\ map = IdleMap
    /\ merge_osm_ways = [state |-> "missing", ways |-> <<>>]
    /\ call = [op |-> "none", consolidate_all |-> FALSE]
    /\ pre = IdleMap
    /\ result = <<>>
    /\ status = "idle"
    /\ previous = [repeat |-> FALSE, result |-> <<>>]
    /\ \E n \in 0..MaxOriginal :
          \E cmds \in {c \in [1..n -> OriginalCommands] : ValidCommands(c)} :
              commands = cmds
    /\ editor = NoEditor
    /\ history = NoHistory
    /\ gameplay = NoGameplay

NextEditor ==
    \/ Create
    \/ ClickFinish
    \/ ClickCancel
    \/ ClickUndo
    \/ ClickRedo
    \/ ClickJump
    \/ ChangeParkingCapacity

SpecEditor == InitEditor /\ [][NextEditor]_vars

----------------------------------------------------------------------------
(* GameplayMode::allows (apps/game/src/sandbox/gameplay/mod.rs) *)

\* the variants of GameplayMode, without the data they carry
GameplayModes ==
    {"Freeform", "PlayScenario", "FixTrafficSignals", "OptimizeCommute", "Actdev",
     "Tutorial"}

\* the variants of EditIntersectionControl
EditIntersectionControls == {"StopSign", "TrafficSignal", "Closed"}

\* the crosswalks of an EditIntersection
CrosswalkSets == {{}, {1}}

\* EditCmd::ChangeIntersection { old, new, .. }
ChangeIntersection(old, new) == [kind |-> "ChangeIntersection", old |-> old, new |-> new]

\* EditCmd::ChangeRouteSchedule { .. }
ChangeRouteSchedule == [kind |-> "ChangeRouteSchedule"]

EditIntersections == [control : EditIntersectionControls, crosswalks : CrosswalkSets]

\* GameplayMode::can_edit_roads
can_edit_roads(mode) == mode # "FixTrafficSignals"

\* GameplayMode::can_edit_stop_signs
can_edit_stop_signs(mode) == mode # "FixTrafficSignals"

CmdReturnsFalseIgnoresCrosswalks(mode, cmd) ==
    CASE cmd.kind = "ChangeRoad" -> ~can_edit_roads(mode)
      [] cmd.kind = "ChangeIntersection" ->
             cmd.new.control \in {"StopSign", "Closed"} /\ ~can_edit_stop_signs(mode)
      [] cmd.kind = "ChangeRouteSchedule" -> FALSE
      [] cmd.kind = "ChangeBuilding" -> FALSE

\* the body of the loop of allows: whether this command makes it return false
CmdReturnsFalse(mode, cmd) ==
    CASE cmd.kind = "ChangeRoad" -> ~can_edit_roads(mode)
      [] cmd.kind = "ChangeIntersection" ->
             \/ cmd.new.control \in {"StopSign", "Closed"} /\ ~can_edit_stop_signs(mode)
             \/ cmd.old.crosswalks # cmd.new.crosswalks /\ ~can_edit_stop_signs(mode)
      [] cmd.kind = "ChangeRouteSchedule" -> FALSE
      [] cmd.kind = "ChangeBuilding" -> FALSE

\* GameplayMode::allows(&self, edits): the loop over edits.commands
RECURSIVE allows(_, _)
allows(mode, cmds) ==
    IF cmds = <<>> THEN TRUE
    ELSE IF CmdReturnsFalse(mode, Head(cmds)) THEN FALSE
    ELSE allows(mode, Tail(cmds))

\* the commands a MapEdits may hold
EditCmds ==
    {ChangeRoad, ChangeRouteSchedule, ChangeBuilding(1, Private(0), Private(1))}
        \cup {ChangeIntersection(old, new) : old, new \in EditIntersections}

InitGameplay ==
    /\ map = IdleMap
    /\ merge_osm_ways = [state |-> "missing", ways |-> <<>>]
    /\ call = [op |-> "none", consolidate_all |-> FALSE]
    /\ pre = IdleMap
    /\ result = <<>>
    /\ status = "idle"
    /\ previous = [repeat |-> FALSE, result |-> <<>>]
    /\ commands = <<>>
    /\ editor = NoEditor
    /\ history = NoHistory
    /\ \E mode \in GameplayModes :
          \E n \in 0..MaxCommands :
              \E cmds \in [1..n -> EditCmds] :
                  gameplay = [mode |-> mode, edits |-> cmds, called |-> FALSE,
                              allowed |-> TRUE]

\* a caller asks mode.allows(edits)
Allows ==
    /\ ~gameplay.called
    /\ gameplay' = [gameplay EXCEPT !.called = TRUE,
                                    !.allowed = allows(gameplay.mode, gameplay.edits)]
    /\ UNCHANGED <<raw_map_vars, editor_vars>>

NextGameplay == Allows

SpecGameplay == InitGameplay /\ [][NextGameplay]_vars

----------------------------------------------------------------------------
(* The maps and override files the model starts from *)

RawRoad(tags, trimmed, center, driveable) ==
    [osm_tags |-> tags, trimmed |-> trimmed, center |-> center, driveable |-> driveable]

Intersection(type, parallel) == [intersection_type |-> type, parallel |-> parallel]

\* values of the osm tag "junction" ("" when the key is absent)
JunctionValues == {"", "intersection"}

TrimmedOutcomes == {NoPolyLine} \cup {PolyLine(n) : n \in TrimmedLengths}
CenterOutcomes == {NoPolyLine} \cup {PolyLine(n) : n \in GeometryLengths}

\* trimming works on the centre line: no centre line, no trimmed polyline
GeometryOutcomes ==
    {g \in [trimmed : TrimmedOutcomes, center : CenterOutcomes] :
        ~g.center.ok => ~g.trimmed.ok}

\* sequences over S of length at most n
RECURSIVE SeqsUpTo(_, _)
SeqsUpTo(S, n) ==
    IF n = 0 THEN {<<>>}
    ELSE LET shorter == SeqsUpTo(S, n - 1)
         IN shorter \cup {Append(q, x) : q \in shorter, x \in S}

\* type assignments with at most one intersection that is not a stop sign
MostlyStopSigns(nodes, special) ==
    {[i \in nodes |-> "StopSign"]}
    \cup {[i \in nodes |-> IF i = j THEN t ELSE "StopSign"] : j \in nodes, t \in special}

\* Two roads in a row: 1 --R1-- 2 --R2-- 3
R1 == OriginalRoad(1, 1, 2)
R2 == OriginalRoad(2, 2, 3)
\* an identifier of a road that has been merged away: no road of any map here
StaleRoad == OriginalRoad(9, 1, 2)

ChainRoads == {R1, R2}
ChainNodes == {1, 2, 3}

\* the centre line that goes with a trimmed polyline in the chain maps
ChainCenter(trimmed) ==
    IF ~trimmed.ok THEN NoPolyLine
    ELSE IF trimmed.length < DistanceThreshold THEN PolyLine(15)
    ELSE IF trimmed.length = DistanceThreshold THEN PolyLine(20)
    ELSE PolyLine(25)

OverrideFiles(ids) ==
    {[state |-> "missing", ways |-> <<>>], [state |-> "corrupt", ways |-> <<>>]}
    \cup {[state |-> "ok", ways |-> w] : w \in SeqsUpTo(ids, MaxOverrides)}

\* chain maps: every tag, trimmed length and override file; at most one border
ChainStarts ==
    {[map |-> [name |-> n,
               roads |-> [r \in ChainRoads |->
                             RawRoad(tags[r], trimmed[r], ChainCenter(trimmed[r]), TRUE)],
               intersections |-> [i \in ChainNodes |-> Intersection(types[i], FALSE)]],
      file |-> f] :
        n \in MapNames,
        tags \in [ChainRoads -> JunctionValues],
        trimmed \in [ChainRoads -> TrimmedOutcomes],
        types \in MostlyStopSigns(ChainNodes, {"Border"}),
        f \in OverrideFiles(ChainRoads \cup {StaleRoad})}

\* signal maps: the chain with every type at every intersection, every geometry of R1
\* and R1 also tagged junction=roundabout
SignalStarts ==
    {[map |-> [name |-> "phinney",
               roads |-> (R1 :> RawRoad(tag, g.trimmed, g.center, TRUE))
                         @@ (R2 :> RawRoad("", PolyLine(6), c, TRUE)),
               intersections |-> [i \in ChainNodes |-> Intersection(types[i], FALSE)]],
      file |-> [state |-> "missing", ways |-> <<>>]] :
        tag \in JunctionValues \cup {"roundabout"},
        g \in GeometryOutcomes,
        c \in {PolyLine(15), PolyLine(25)},
        types \in [ChainNodes -> IntersectionTypes]}

\* Dog leg: the road LegF between intersections 1 and 2, two more roads at each end,
\* and LegE, a second way between 4 and 1
\*
\*     3 --LegA-- 1 --LegF-- 2 --LegC-- 3
\*     4 --LegB-- 1          2 --LegD-- 4
LegA == OriginalRoad(1, 1, 3)
LegB == OriginalRoad(2, 4, 1)
LegF == OriginalRoad(3, 1, 2)
LegC == OriginalRoad(4, 3, 2)
LegD == OriginalRoad(5, 2, 4)
LegE == OriginalRoad(6, 4, 1)

LegNodes == {1, 2, 3, 4}
LegSideRoads == {LegA, LegB, LegC, LegD, LegE}

\* dog-leg maps: LegF of every trimmed length and tag, with at least four of the side
\* roads, at most one road that is not driveable and at most one border
DogLegStarts ==
    {[map |-> [name |-> "montlake",
               roads |-> [r \in side \cup {LegF} |->
                             IF r = LegF
                             THEN RawRoad(tag, trimmed, ChainCenter(trimmed), LegF \notin closed)
                             ELSE RawRoad("", PolyLine(6), PolyLine(25), r \notin closed)],
               intersections |-> [i \in LegNodes |-> Intersection(types[i], i = 1 /\ parallel)]],
      file |-> [state |-> "missing", ways |-> <<>>]] :
        side \in {s \in SUBSET LegSideRoads : Cardinality(s) >= 4},
        closed \in {{}} \cup {{r} : r \in LegSideRoads \cup {LegF}},
        tag \in JunctionValues,
        trimmed \in TrimmedOutcomes,
        types \in MostlyStopSigns(LegNodes, {"Border"}),
        parallel \in BOOLEAN}

Starts == ChainStarts \cup SignalStarts \cup DogLegStarts

NoCall == [op |-> "none", consolidate_all |-> FALSE]
NoRepeat == [repeat |-> FALSE, result |-> <<>>]

Init ==
    \E s \in Starts :
        /\ map = s.map
        /\ merge_osm_ways = s.file
        /\ call = NoCall
        /\ pre = s.map
        /\ result = <<>>
        /\ status = "idle"
        /\ previous = NoRepeat
        /\ commands = <<>>
        /\ editor = NoEditor
        /\ history = NoHistory
        /\ gameplay = NoGameplay

----------------------------------------------------------------------------
(* The operations.  A panic ends the program: nothing runs after it. *)

Finish(op, consolidate_all, out) ==
    /\ call' = [op |-> op, consolidate_all |-> consolidate_all]
    /\ pre' = map
    /\ map' = out.marked.map
    /\ result' = IF out.marked.panicked THEN <<>> ELSE out.list
    /\ status' = IF out.marked.panicked THEN "panicked" ELSE "returned"
    /\ previous' = IF status = "returned" /\ call = [op |-> op, consolidate_all |-> consolidate_all]
                   THEN [repeat |-> TRUE, result |-> result]
                   ELSE NoRepeat
    /\ UNCHANGED merge_osm_ways
    /\ UNCHANGED <<editor_vars, gameplay>>

FindShortRoads ==
    /\ status # "panicked"
    /\ \E consolidate_all \in BOOLEAN :
           Finish("find_short_roads", consolidate_all,
                  find_short_roads(map, consolidate_all, merge_osm_ways))

FindTrafficSignalClusters ==
    /\ status # "panicked"
    /\ Finish("find_traffic_signal_clusters", FALSE, find_traffic_signal_clusters(map))

FindDogLegs ==
    /\ status # "panicked"
    /\ Finish("find_dog_legs", FALSE, find_dog_legs(map))

Next == FindShortRoads \/ FindTrafficSignalClusters \/ FindDogLegs

Spec == Init /\ [][Next]_vars

----------------------------------------------------------------------------
(* Vocabulary of the properties, stated over the map as the call found it (pre) *)

Roads == DOMAIN pre.roads

TaggedBefore == {r \in Roads : pre.roads[r].osm_tags = "intersection"}
TaggedAfter == {r \in DOMAIN map.roads : map.roads[r].osm_tags = "intersection"}

\* the identifiers listed in merge_osm_ways.json, none when it cannot be read
OverrideList == IF merge_osm_ways.state = "ok" THEN merge_osm_ways.ways ELSE <<>>
Overrides == Range(OverrideList)

TouchesBorder(r) ==
    \/ pre.intersections[r.i1].intersection_type = "Border"
    \/ pre.intersections[r.i2].intersection_type = "Border"

TouchesSignal(r) ==
    \/ pre.intersections[r.i1].intersection_type = "TrafficSignal"
    \/ pre.intersections[r.i2].intersection_type = "TrafficSignal"

Incident(i) == {r \in Roads : r.i1 = i \/ r.i2 = i}

\* three roads meet at i, all driveable, none of them reaching a border
PlainThreeWay(i) ==
    /\ Cardinality(Incident(i)) = 3
    /\ \A r \in Incident(i) : pre.roads[r].driveable /\ ~TouchesBorder(r)

Returned(op) == call.op = op /\ status = "returned"

HasDuplicates(list) == \E j, k \in 1..Len(list) : j # k /\ list[j] = list[k]

----------------------------------------------------------------------------
(* C1: when find_short_roads returns, the set of identifiers it returns is the roads
   tagged junction=intersection before the call, plus (only if consolidate_all) the
   untagged roads whose trimmed geometry exists and is shorter than 5.0, plus the
   override identifiers; nothing else, so no dog-leg or signal-cluster result. *)
C1_ResultIsUnion ==
    Returned("find_short_roads") =>
        Range(result) =
            TaggedBefore
            \cup (IF call.consolidate_all
                  THEN {r \in Roads \ TaggedBefore :
                           pre.roads[r].trimmed.ok /\ pre.roads[r].trimmed.length < 5}
                  ELSE {})
            \cup Overrides

\* a run with consolidate_all on the montlake map that leaves out the 5.0 long road
\* joining two plain three-way intersections
C1_WitnessNoDogLeg ==
    /\ Returned("find_short_roads")
    /\ call.consolidate_all
    /\ pre.name = "montlake"
    /\ \E r \in Roads :
          /\ pre.roads[r].trimmed = PolyLine(5)
          /\ PlainThreeWay(r.i1) /\ PlainThreeWay(r.i2)
          /\ r \notin Range(result)

\* a run that returns one road for its length (or its tag and length) and another,
\* untagged and without trimmed geometry, only as an override
C1_Witness ==
    /\ Returned("find_short_roads")
    /\ call.consolidate_all
    /\ \E r, o \in Roads :
          /\ r # o
          /\ r \notin TaggedBefore \cup Overrides /\ r \in Range(result)
          /\ o \notin TaggedBefore /\ ~pre.roads[o].trimmed.ok /\ o \in Overrides

(* C2: the distance heuristic flags a road exactly when its trimmed geometry exists and
   is strictly shorter than 5.0; a road of exactly 5.0 and a road without trimmed
   geometry are not flagged, and the missing geometry makes nothing fail. *)
C2_DistanceHeuristic ==
    /\ \A r \in DOMAIN map.roads :
          distance_heuristic(r, map)
              <=> (map.roads[r].trimmed.ok /\ map.roads[r].trimmed.length < 5)
    /\ (Returned("find_short_roads") /\ call.consolidate_all) =>
          \A r \in Roads \ (TaggedBefore \cup Overrides) :
              r \in Range(result)
                  <=> (pre.roads[r].trimmed.ok /\ pre.roads[r].trimmed.length < 5)
    /\ (call.op = "find_short_roads" /\ status = "panicked") => ~(Overrides \subseteq Roads)

\* consolidate_all: a 4.0 road is flagged, the road next to it has no trimmed geometry
\* or is exactly 5.0 long and is left out
C2_Witness ==
    /\ Returned("find_short_roads")
    /\ call.consolidate_all
    /\ Overrides = {}
    /\ \E r, u \in Roads \ TaggedBefore :
          /\ pre.roads[r].trimmed = PolyLine(4) /\ r \in Range(result)
          /\ pre.roads[u].trimmed = PolyLine(5) /\ u \notin Range(result)

(* C3: every identifier of the override list is in the list find_short_roads returns,
   whatever the road's tags, geometry and endpoints and whatever consolidate_all. *)
C3_OverridesIncluded ==
    Returned("find_short_roads") => Overrides \subseteq Range(result)

\* an override that nothing else would flag: untagged, 6.0 long, at a border
C3_Witness ==
    /\ Returned("find_short_roads")
    /\ \E r \in Overrides :
          /\ r \notin TaggedBefore
          /\ pre.roads[r].trimmed = PolyLine(6)
          /\ TouchesBorder(r)
          /\ r \in Range(result)

(* C4: a road with a border endpoint is neither returned nor tagged by
   find_traffic_signal_clusters or by find_dog_legs. *)
C4_BorderRoadsSkipped ==
    (Returned("find_traffic_signal_clusters") \/ Returned("find_dog_legs")) =>
        \A r \in Roads :
            TouchesBorder(r) =>
                /\ r \notin Range(result)
                /\ map.roads[r].osm_tags = pre.roads[r].osm_tags

\* a short road between two three-way intersections of driveable roads, one of them
\* joined to a border by another road, after find_dog_legs
C4_Witness ==
    /\ Returned("find_dog_legs")
    /\ \E r \in Roads :
          /\ pre.roads[r].trimmed = PolyLine(4)
          /\ pre.roads[r].osm_tags = ""
          /\ \A i \in {r.i1, r.i2} :
                Cardinality(Incident(i)) = 3 /\ \A x \in Incident(i) : pre.roads[x].driveable
          /\ TouchesBorder(r)
          /\ r \notin Range(result)

\* a 15.0 road from a border to a traffic signal after find_traffic_signal_clusters
C4_WitnessSignal ==
    /\ Returned("find_traffic_signal_clusters")
    /\ \E r \in Roads \ TaggedBefore :
          /\ pre.roads[r].center = PolyLine(15)
          /\ TouchesBorder(r) /\ TouchesSignal(r)
          /\ r \notin Range(result)

(* C5, as claimed: every road find_short_roads newly flags through the distance
   heuristic has two non-border endpoints, so a road shorter than 5.0 with a border
   endpoint is neither returned nor tagged. *)
C5_DistanceSkipsBorders ==
    (Returned("find_short_roads") /\ call.consolidate_all) =>
        \A r \in Roads \ (TaggedBefore \cup Overrides) :
            TouchesBorder(r) => (r \notin Range(result) /\ r \notin TaggedAfter)

(* C5, amended: the distance heuristic looks at the trimmed length alone; with
   consolidate_all a road shorter than 5.0 is returned and tagged also when one of
   its endpoints is a border. *)
C5_DistanceIgnoresBorders ==
    (Returned("find_short_roads") /\ call.consolidate_all) =>
        \A r \in Roads :
            (pre.roads[r].trimmed.ok /\ pre.roads[r].trimmed.length < 5) =>
                (r \in Range(result) /\ r \in TaggedAfter)

\* an untagged 4.0 road at a border, no override, returned and tagged
C5_Witness ==
    /\ Returned("find_short_roads")
    /\ call.consolidate_all
    /\ \E r \in Roads \ (TaggedBefore \cup Overrides) :
          /\ TouchesBorder(r)
          /\ pre.roads[r].trimmed = PolyLine(4)
          /\ r \in Range(result) /\ r \in TaggedAfter

(* C6, as claimed: a second run of find_short_roads with the same consolidate_all and
   the same override list returns the same flagged roads as the first, leaves the tags
   as the first left them, and its result has no duplicate entries. *)
C6_SecondRunSameNoDuplicates ==
    (call.op = "find_short_roads" /\ previous.repeat) =>
        /\ status = "returned"
        /\ Range(result) = Range(previous.result)
        /\ map = pre
        /\ ~HasDuplicates(result)

(* C6, amended: the second run returns the same set of identifiers and changes no tag;
   the returned list may repeat identifiers. *)
C6_SecondRunSameSet ==
    (call.op = "find_short_roads" /\ previous.repeat) =>
        /\ status = "returned"
        /\ Range(result) = Range(previous.result)
        /\ map = pre

\* a second run whose list differs from the first run's list by a repeated override
C6_Witness ==
    /\ Returned("find_short_roads")
    /\ previous.repeat
    /\ ~HasDuplicates(previous.result)
    /\ HasDuplicates(result)
    /\ Overrides # {}

(* C7: the commit is all or nothing: a call that does not complete has changed no tag,
   and a call that completes has tagged every road of its list. *)
C7_AllOrNothing ==
    /\ status = "panicked" => map = pre
    /\ status = "returned" => Range(result) \subseteq TaggedAfter

(* C8: find_dog_legs flags a road exactly when its trimmed geometry exists with length
   at most 5.0 and each of its two endpoints joins exactly three roads, all driveable,
   none reaching a border; four roads at an endpoint un-flag it, and roads that are
   nearly parallel at an endpoint change nothing. *)
C8_DogLegs ==
    Returned("find_dog_legs") =>
        \A r \in Roads :
            r \in Range(result)
                <=> /\ pre.roads[r].trimmed.ok
                    /\ pre.roads[r].trimmed.length <= 5
                    /\ PlainThreeWay(r.i1)
                    /\ PlainThreeWay(r.i2)

\* a 5.0 road between two three-way intersections, the roads at one of them nearly
\* parallel, is flagged
C8_Witness ==
    /\ Returned("find_dog_legs")
    /\ \E r \in Range(result) :
          /\ pre.roads[r].trimmed = PolyLine(5)
          /\ pre.intersections[r.i1].parallel

\* the same road with a fourth road at one endpoint is not flagged
C8_WitnessFourWay ==
    /\ Returned("find_dog_legs")
    /\ \E r \in Roads :
          /\ pre.roads[r].trimmed = PolyLine(4)
          /\ Cardinality(Incident(r.i1)) = 4
          /\ PlainThreeWay(r.i2)
          /\ \A x \in Incident(r.i1) : pre.roads[x].driveable /\ ~TouchesBorder(x)
          /\ r \notin Range(result)

(* C9: find_traffic_signal_clusters flags a road exactly when it is not yet tagged
   junction=intersection, neither endpoint is a border, at least one endpoint is a
   traffic signal, and its geometry exists with length at most 20.0. *)
C9_SignalClusters ==
    Returned("find_traffic_signal_clusters") =>
        \A r \in Roads :
            r \in Range(result)
                <=> /\ r \notin TaggedBefore
                    /\ ~TouchesBorder(r)
                    /\ TouchesSignal(r)
                    /\ pre.roads[r].center.ok
                    /\ pre.roads[r].center.length <= 20

\* a signal between two stop signs: the 15.0 road is flagged, the 25.0 road is not
C9_Witness ==
    /\ Returned("find_traffic_signal_clusters")
    /\ \E r, u \in Roads :
          /\ pre.intersections[r.i2].intersection_type = "TrafficSignal"
          /\ pre.intersections[r.i1].intersection_type = "StopSign"
          /\ pre.intersections[u.i2].intersection_type = "StopSign"
          /\ u.i1 = r.i2
          /\ pre.roads[r].center = PolyLine(15) /\ r \in Range(result)
          /\ pre.roads[u].center = PolyLine(25) /\ u \notin Range(result)

\* a road of exactly 20.0 is flagged
C9_WitnessInclusive ==
    /\ Returned("find_traffic_signal_clusters")
    /\ \E r \in Range(result) : pre.roads[r].center = PolyLine(20)

\* the roads find_traffic_signal_clusters would look at the length of
SignalCandidates == {r \in Roads \ TaggedBefore : ~TouchesBorder(r) /\ TouchesSignal(r)}

(* C10, as claimed: the signal-cluster pass decides by the trimmed length: where a
   road's trimmed length and its centre-line length lie on opposite sides of 20.0,
   the road is flagged exactly when the trimmed length is at most 20.0. *)
C10_DecidesByTrimmedLength ==
    Returned("find_traffic_signal_clusters") =>
        \A r \in SignalCandidates :
            (/\ pre.roads[r].trimmed.ok /\ pre.roads[r].center.ok
             /\ (pre.roads[r].trimmed.length <= 20) # (pre.roads[r].center.length <= 20)) =>
                (r \in Range(result) <=> pre.roads[r].trimmed.length <= 20)

(* C10, amended: the signal-cluster pass decides by the length of the road's own
   geometry (get_geometry, the centre line), not by trimmed_road_geometry: where the
   two lengths lie on opposite sides of 20.0, the road is flagged exactly when the
   centre line is at most 20.0 long. *)
C10_DecidesByCenterLength ==
    Returned("find_traffic_signal_clusters") =>
        \A r \in SignalCandidates :
            (/\ pre.roads[r].trimmed.ok /\ pre.roads[r].center.ok
             /\ (pre.roads[r].trimmed.length <= 20) # (pre.roads[r].center.length <= 20)) =>
                (r \in Range(result) <=> pre.roads[r].center.length <= 20)

\* a road at a signal, trimmed to 4.0 from a 25.0 centre line, is not flagged
C10_Witness ==
    /\ Returned("find_traffic_signal_clusters")
    /\ \E r \in SignalCandidates :
          /\ pre.roads[r].trimmed = PolyLine(4)
          /\ pre.roads[r].center = PolyLine(25)
          /\ r \notin Range(result)

----------------------------------------------------------------------------
(* Vocabulary of the properties about the order and the repetitions of the result *)

\* the roads the first loop of find_short_roads contributes
Scanned ==
    TaggedBefore
    \cup (IF call.consolidate_all
          THEN {r \in Roads : pre.roads[r].trimmed.ok /\ pre.roads[r].trimmed.length < 5}
          ELSE {})

\* how often x occurs in list
Count(x, list) == Cardinality({k \in 1..Len(list) : list[k] = x})

IsSorted(list) == \A j, k \in 1..Len(list) : j < k => RoadLess(list[j], list[k])

(* C11: overrides are merged last: the list find_short_roads returns is the scanned
   roads followed by the override list, in override-list order. *)
C11_OverridesLast ==
    Returned("find_short_roads") =>
        LET n == Len(result) - Len(OverrideList)
        IN /\ n >= 0
           /\ SubSeq(result, n + 1, Len(result)) = OverrideList
           /\ Range(SubSeq(result, 1, n)) = Scanned
           /\ n = Cardinality(Scanned)

\* the scan contributes the last road of the map, the override list names the roads
\* against the key order, and the overrides still come last and in list order
C11_Witness ==
    /\ Returned("find_short_roads")
    /\ Len(OverrideList) = 2
    /\ RoadLess(OverrideList[2], OverrideList[1])
    /\ Scanned # {}
    /\ \A r \in Scanned : RoadLess(OverrideList[2], r)
    /\ result[Len(result)] = OverrideList[2]
    /\ result[Len(result) - 1] = OverrideList[1]

(* C12: after any of the three functions returns, every road of the returned list has
   junction=intersection, and a road of the list that had the tag already is unchanged. *)
C12_ReturnedRoadsTagged ==
    status = "returned" =>
        /\ Range(result) \subseteq TaggedAfter
        /\ \A r \in Range(result) \cap TaggedBefore : map.roads[r] = pre.roads[r]

\* a list with a road that had the tag and, after it, a road that gets it
C12_Witness ==
    /\ status = "returned"
    /\ Len(result) >= 2
    /\ result[1] \in TaggedBefore
    /\ result[2] \notin TaggedBefore
    /\ result[2] \in TaggedAfter

(* C13: the calls change nothing but the tag junction=intersection of returned roads:
   the roads, their endpoints and geometry, the intersections and their types stay,
   a road not in the returned list keeps its tags, and no road loses the tag. *)
C13_OnlyReturnedRoadsChange ==
    /\ DOMAIN map.roads = DOMAIN pre.roads
    /\ map.intersections = pre.intersections
    /\ map.name = pre.name
    /\ \A r \in Roads :
          /\ r \notin Range(result) => map.roads[r] = pre.roads[r]
          /\ r \in Range(result) =>
                map.roads[r] = [pre.roads[r] EXCEPT !.osm_tags = "intersection"]
    /\ TaggedBefore \subseteq TaggedAfter

(* C14: with merge_osm_ways.json missing or unparseable, find_short_roads completes and
   returns what it returns with an empty override list, with the same tags after. *)
C14_UnreadableFileIsEmptyList ==
    (call.op = "find_short_roads" /\ merge_osm_ways.state # "ok") =>
        LET empty == find_short_roads(pre, call.consolidate_all,
                                      [state |-> "ok", ways |-> <<>>])
        IN /\ status = "returned"
           /\ result = empty.list
           /\ map = empty.marked.map
           /\ Range(result) = Scanned

\* the file cannot be parsed and the run still returns a road and tags it
C14_Witness ==
    /\ Returned("find_short_roads")
    /\ merge_osm_ways.state = "corrupt"
    /\ \E r \in Range(result) : r \notin TaggedBefore /\ r \in TaggedAfter

(* C15: with an override identifier that is no road of the map, find_short_roads does
   not return: it fails in the commit. *)
C15_UnknownOverrideFails ==
    (call.op = "find_short_roads" /\ ~(Overrides \subseteq Roads)) => status = "panicked"

\* a run on an override list that names a road of the map and a road that is none
C15_Witness ==
    /\ call.op = "find_short_roads"
    /\ status = "panicked"
    /\ StaleRoad \in Overrides
    /\ Overrides \cap Roads # {}

(* C17: the returned list holds every scanned road once; an identifier occurs as often
   as the scan (0 or 1) plus the override list name it, and a second run returns every
   override identifier at least twice. *)
C17_Repetitions ==
    /\ Returned("find_short_roads") =>
          \A r \in Roads :
              Count(r, result) = (IF r \in Scanned THEN 1 ELSE 0) + Count(r, OverrideList)
    /\ (Returned("find_short_roads") /\ previous.repeat) =>
          \A r \in Overrides : Count(r, result) >= 2

\* a second run listing an override twice that the first run listed once
C17_Witness ==
    /\ Returned("find_short_roads")
    /\ previous.repeat
    /\ \E r \in Overrides :
          /\ Count(r, OverrideList) = 1
          /\ Count(r, previous.result) = 1
          /\ Count(r, result) = 2

\* a tagged road shorter than 5.0 under consolidate_all is listed once
C17_WitnessTaggedAndShort ==
    /\ Returned("find_short_roads")
    /\ call.consolidate_all
    /\ \E r \in TaggedBefore \ Overrides :
          pre.roads[r].trimmed = PolyLine(4) /\ Count(r, result) = 1

(* C18: a second find_traffic_signal_clusters in a row returns an empty list and
   changes no tag; a second find_dog_legs in a row returns the list of the first. *)
C18_SecondPass ==
    /\ (call.op = "find_traffic_signal_clusters" /\ previous.repeat) =>
          (status = "returned" /\ result = <<>> /\ map = pre)
    /\ (call.op = "find_dog_legs" /\ previous.repeat) =>
          (status = "returned" /\ result = previous.result)

\* second find_traffic_signal_clusters after one that flagged a road
C18_Witness ==
    /\ Returned("find_traffic_signal_clusters")
    /\ previous.repeat
    /\ previous.result # <<>>
    /\ result = <<>>

\* second find_dog_legs after one that flagged a road
C18_WitnessDogLegs ==
    /\ Returned("find_dog_legs")
    /\ previous.repeat
    /\ previous.result # <<>>
    /\ result = previous.result

----------------------------------------------------------------------------
(* Claims about the building editor, stated over SpecEditor *)

Originally == editor.num_edit_cmds_originally

\* the commands and the redo_stack the last event found
Before == history.last

Front(seq) == SubSeq(seq, 1, Len(seq) - 1)

RECURSIVE Reverse(_)
Reverse(seq) == IF seq = <<>> THEN <<>> ELSE Append(Reverse(Tail(seq)), Head(seq))

\* C16: on Finish, whenever the command list holds 2 or more commands beyond
\* num_edit_cmds_originally, the list left behind has exactly
\* num_edit_cmds_originally + 1 commands, the first num_edit_cmds_originally of them
\* unchanged, and its last command is a ChangeBuilding with the old value of the
\* editor's first change and the new value of its latest change.
C16_FinishCompresses ==
    (history.last.event = "Finish" /\ Len(Before.commands) >= Originally + 2) =>
        /\ Len(commands) = Originally + 1
        /\ SubSeq(commands, 1, Originally) = SubSeq(Before.commands, 1, Originally)
        /\ commands[Originally + 1].kind = "ChangeBuilding"
        /\ commands[Originally + 1].old = Before.commands[Originally + 1].old
        /\ commands[Originally + 1].new = Before.commands[Len(Before.commands)].new

\* C19: Cancel leaves the command list equal to the list BuildingEditor::create
\* found; in every state of the editor the first num_edit_cmds_originally commands
\* are that list and the list is never shorter; undo is enabled exactly while the list
\* is longer than it, redo exactly while redo_stack is non-empty.
C19_CancelRestores ==
    editor.state # "none" =>
        /\ Len(commands) >= Originally
        /\ SubSeq(commands, 1, Originally) = history.original
        /\ history.last.event = "Cancel" => commands = history.original
        /\ editor.state = "open" =>
              /\ ~editor.top_panel.undo_disabled <=> Len(commands) > Originally
              /\ ~editor.top_panel.redo_disabled <=> editor.redo_stack # <<>>

\* Cancel after changes, an undo and a redo, on a map that already had commands
C19_Witness ==
    /\ history.last.event = "Cancel"
    /\ history.earlier.event \in {"undo", "redo"}
    /\ Originally > 0
    /\ Len(Before.commands) > Originally
    /\ Before.redo_stack # <<>>
    /\ commands = history.original

\* C20: undo moves the last command onto redo_stack and redo moves it back; undo
\* followed by redo restores the command list and redo_stack; the command list
\* followed by the reversed redo_stack is the same before and after an undo or a redo;
\* a parking-capacity change appends one ChangeBuilding for the edited building and
\* empties redo_stack.
C20_UndoRedo ==
    /\ history.last.event = "undo" =>
          /\ commands = Front(Before.commands)
          /\ editor.redo_stack =
                 Append(Before.redo_stack, Before.commands[Len(Before.commands)])
    /\ history.last.event = "redo" =>
          /\ commands = Append(Before.commands, Before.redo_stack[Len(Before.redo_stack)])
          /\ editor.redo_stack = Front(Before.redo_stack)
    /\ (history.last.event = "redo" /\ history.earlier.event = "undo") =>
          /\ commands = history.earlier.commands
          /\ editor.redo_stack = history.earlier.redo_stack
    /\ history.last.event \in {"undo", "redo"} =>
          commands \o Reverse(editor.redo_stack) =
              Before.commands \o Reverse(Before.redo_stack)
    /\ history.last.event = "parking_capacity" =>
          /\ Len(commands) = Len(Before.commands) + 1
          /\ Front(commands) = Before.commands
          /\ commands[Len(commands)].kind = "ChangeBuilding"
          /\ commands[Len(commands)].b = editor.b
          /\ editor.redo_stack = <<>>

\* an undo followed by a redo, with an earlier undone command still on redo_stack
C20_Witness ==
    /\ history.last.event = "redo"
    /\ history.earlier.event = "undo"
    /\ history.earlier.redo_stack # <<>>
    /\ editor.redo_stack = history.earlier.redo_stack
    /\ commands = history.earlier.commands

\* a parking-capacity change that found undone commands on redo_stack
C20_WitnessChange ==
    /\ history.last.event = "parking_capacity"
    /\ Before.redo_stack # <<>>
    /\ editor.redo_stack = <<>>

----------------------------------------------------------------------------
(* Claims about GameplayMode::allows, stated over SpecGameplay *)

Edits == gameplay.edits

\* some command of the list is of a kind FixTrafficSignals forbids
HasForbiddenCmd ==
    \E i \in 1..Len(Edits) :
        \/ Edits[i].kind = "ChangeRoad"
        \/ /\ Edits[i].kind = "ChangeIntersection"
           /\ \/ Edits[i].new.control \in {"StopSign", "Closed"}
              \/ Edits[i].old.crosswalks # Edits[i].new.crosswalks

\* C21: allows(edits) is false if and only if the mode is FixTrafficSignals and edits
\* holds a ChangeRoad, or a ChangeIntersection whose new control is StopSign or
\* Closed, or a ChangeIntersection whose crosswalks differ between old and new; every
\* other mode allows every edit list, and a list of ChangeRouteSchedule and
\* ChangeBuilding commands is allowed in every mode.
C21_Allows ==
    gameplay.called =>
        /\ ~gameplay.allowed <=> (gameplay.mode = "FixTrafficSignals" /\ HasForbiddenCmd)
        /\ gameplay.mode # "FixTrafficSignals" => gameplay.allowed
        /\ (\A i \in 1..Len(Edits) :
                Edits[i].kind \in {"ChangeRouteSchedule", "ChangeBuilding"})
              => gameplay.allowed

\* FixTrafficSignals refuses a list whose only offence is a crosswalk change on an
\* intersection that stays a traffic signal, after a harmless command
C21_Witness ==
    /\ gameplay.called
    /\ gameplay.mode = "FixTrafficSignals"
    /\ Len(Edits) = 2
    /\ Edits[1].kind = "ChangeBuilding"
    /\ Edits[2].kind = "ChangeIntersection"
    /\ Edits[2].new.control = "TrafficSignal"
    /\ Edits[2].old.crosswalks # Edits[2].new.crosswalks
    /\ ~gameplay.allowed

\* another mode allows a list FixTrafficSignals would refuse
C21_WitnessOtherMode ==
    /\ gameplay.called
    /\ gameplay.mode = "Tutorial"
    /\ HasForbiddenCmd
    /\ gameplay.allowed

\* FixTrafficSignals allows a change that keeps the signal and its crosswalks
C21_WitnessSignalTiming ==
    /\ gameplay.called
    /\ gameplay.mode = "FixTrafficSignals"
    /\ Len(Edits) > 0
    /\ \A i \in 1..Len(Edits) : Edits[i].kind = "ChangeIntersection"
    /\ gameplay.allowed

====
